---- MODULE Spec2Model ----
(***************************************************************************)
(* WebRig native host (src/native-host/host.py): the WebSocket relay       *)
(* between Browser connections (extension side, keyed by email) and Agent  *)
(* connections, as a state machine.                                        *)
(*                                                                         *)
(* One handler task runs per connection.  A task runs without interruption *)
(* from one await to the next (asyncio's cooperative scheduling), so every *)
(* action below is the code between two suspension points:                 *)
(*   - an await whose outcome the code discards and which is the last      *)
(*     statement of its handler (a reply to the caller) is part of the     *)
(*     action that reaches it;                                             *)
(*   - every other await (old.ws.close(), the forward of a tool_call, the  *)
(*     sends inside the fan-out loop and inside cleanup's loop, the wait   *)
(*     on an aggregation future) ends the action, and a Resume action      *)
(*     continues the task later, after any number of other tasks' steps.   *)
(* A send to a connection that is not open raises at once, without         *)
(* suspending.  A send to an open connection hands the message to the      *)
(* transport and may suspend; if the connection goes down while the send   *)
(* is suspended, the send either completes or raises.                      *)
(***************************************************************************)
EXTENDS Integers, Sequences, FiniteSets, TLC

\* ------------------------------------------------------------------ bounds
MaxConns == 3        \* connections accepted over the run
MaxMsgs == 4         \* messages received over a run, all connections
MaxMixed == 2        \* the same, in the run where every message type occurs
MaxCloses == 1       \* peers that close their connection over a run
MaxTakeover == 5     \* messages received in the run of the mix "takeover"
MaxFifo == 5         \* messages received in the run of the mix "fifo"

Conns == 1..MaxConns
NoConn == 0

\* ------------------------------------------------------------ input values
Emails == {"a@x", "b@x", "c@x"}
MainEmails == {"a@x", "b@x"}            \* the emails of every mix but "takeover"
NoHint == "<none>"                      \* msg.get("browser") is None or ""
Hints == {NoHint} \cup Emails \cup {"z@x"}
MsgHints == {NoHint, "b@x"}             \* the hints messages carry
Tids == {"t1", "t2"}
Announcements ==
  { [tools |-> <<"navigate", "click">>, tool_schemas |-> <<"s1", "s2">>],
    [tools |-> <<"navigate", "click", "type">>, tool_schemas |-> <<"s1", "s2", "s3">>] }
GroupPayloads == { << [id |-> "g1"] >> }

ExtMsgs ==
  { [type |-> "extension_connected", email |-> e, tools |-> a.tools,
     tool_schemas |-> a.tool_schemas] : e \in MainEmails, a \in Announcements }
ToolCallMsgs ==
  { [type |-> "tool_call", tool_use_id |-> t, browser |-> h] : t \in Tids, h \in MsgHints }
ListToolsMsgs == { [type |-> "list_tools", browser |-> h] : h \in MsgHints }
ToolResultMsgs ==
  { [type |-> "tool_result", tool_use_id |-> t, content |-> "out", is_error |-> FALSE] :
      t \in Tids }
TabGroupsMsgs == { [type |-> "tab_groups_list", groups |-> g] : g \in GroupPayloads }
PlainMsgs ==
  { [type |-> ty] : ty \in {"list_browsers", "list_tab_groups", "tool_list", "pong", "bogus"} }
Plain(ty) == [type |-> ty]
FirstAnnouncement == CHOOSE a \in Announcements : Len(a.tools) = 2
ThirdExtMsgs ==
  { [type |-> "extension_connected", email |-> "c@x", tools |-> FirstAnnouncement.tools,
     tool_schemas |-> FirstAnnouncement.tool_schemas] }
Msgs ==
  ExtMsgs \cup ToolCallMsgs \cup ListToolsMsgs \cup ToolResultMsgs
    \cup TabGroupsMsgs \cup PlainMsgs \cup ThirdExtMsgs

\* What the peers send is explored one traffic mix at a time: each run of the
\* server sees the message types of one mix, in any order and interleaving.
\* In the mixes "registry", "calls" and "tabs" a peer is an extension or an
\* agent client and sends the message types of its side of the protocol, in
\* any order; in the mix "mixed" every peer sends every message type.  The
\* mix "takeover" is the traffic of one extension with three accounts, an
\* agent calling a tool and extensions that announce the same accounts.  The
\* mix "fifo" is the traffic of two calls and their results: extensions of
\* one account, agents calling without naming a target.
PlainExtMsgs == { m \in ExtMsgs : m.tools = FirstAnnouncement.tools }
Mixes == {"registry", "calls", "tabs", "mixed"}
Vocabulary(mx) ==
  CASE mx = "registry" ->
         ExtMsgs \cup ListToolsMsgs \cup {Plain("list_browsers"), Plain("tool_list")}
    [] mx = "calls" -> PlainExtMsgs \cup ToolCallMsgs \cup ToolResultMsgs
    [] mx = "tabs" -> PlainExtMsgs \cup TabGroupsMsgs \cup {Plain("list_tab_groups")}
    [] mx = "takeover" ->
         PlainExtMsgs \cup ThirdExtMsgs
           \cup {[type |-> "tool_call", tool_use_id |-> "t1", browser |-> NoHint]}
    [] mx = "fifo" ->
         { m \in PlainExtMsgs : m.email = "a@x" }
           \cup { m \in ToolCallMsgs : m.browser = NoHint } \cup ToolResultMsgs
    [] OTHER -> Msgs \ ThirdExtMsgs
Budget(mx) ==
  CASE mx = "mixed" -> MaxMixed
    [] mx = "takeover" -> MaxTakeover
    [] mx = "fifo" -> MaxFifo
    [] OTHER -> MaxMsgs
PeerKinds(mx) == IF mx = "mixed" THEN {"any"} ELSE {"extension", "agent"}
Speaks(kind) ==
  CASE kind = "" -> {}
    [] kind = "extension" ->
         { m \in Msgs : m.type \in {"extension_connected", "tool_result", "tool_list",
                                     "tab_groups_list", "pong"} }
    [] kind = "agent" ->
         { m \in Msgs : m.type \in {"list_browsers", "list_tools", "tool_call",
                                     "list_tab_groups", "bogus"} }
    [] OTHER -> Msgs

\* ------------------------------------------------------------------- state
VARIABLES
  conn,                \* [Conns -> "none" | "open" | "closed"]: the transport
  unclassified,        \* self.unclassified
  agents,              \* self.agents
  browsers,            \* self.browsers: the dict's items, in insertion order
  pending_requests,    \* self.pending_requests: items, in insertion order
  pending_list_tools,  \* self.pending_list_tools: items
  pending_tab_groups,  \* self.pending_tab_groups: email -> owner of the Future
  fut,                 \* the Futures: fut[a][e] is the one task a made for e
  task,                \* each handler task's position and locals
  sent,                \* what each connection's peer was sent, in order, while
                       \* its handler runs
  mix,                 \* the traffic mix of this run
  peer,                \* what kind of client each connection's peer is
  nrecv,               \* messages received so far
  calls,               \* history: per Agent and id, the tool_calls received
  ncloses,             \* history: peers that closed their connection
  tabreqs,             \* history: per Agent, its latest list_tab_groups
  why,                 \* history: what closed each connection
  nreplies,            \* history: tab_groups_list messages received per connection
  announced,           \* history: the emails each connection was registered under
  annat,               \* history: when each connection first announced each email,
                       \* as the count of messages received up to then; 0: never
  arrival,             \* history: per connection, message type and id, how many
                       \* tool_calls and tool_results arrived (n) and when the
                       \* latest did (at), as annat counts
  toollists            \* history: tool_list messages received per connection

vars ==
  << conn, unclassified, agents, browsers, pending_requests, pending_list_tools,
     pending_tab_groups, fut, task, sent, mix, peer, nrecv, calls, ncloses, tabreqs, why,
     nreplies, announced, annat, arrival, toollists >>

\* The process around the server: main() and the native messaging thread.
VARIABLES
  native_mode,         \* is_native_messaging(): launched by Chrome
  port,                \* args.port
  mainpc,              \* where main() is
  handlers,            \* loop.add_signal_handler installed shutdown()
  shutdown_event,      \* the threading.Event: is it set
  nm,                  \* where native_messaging_loop is
  stdin,               \* the bytes Chrome wrote that were not read yet
  stdin_eof,           \* Chrome closed its end of stdin
  stdout,              \* the bytes written to stdout
  written,             \* history: what Chrome wrote, frame by frame, not read yet
  readlog,             \* history: each native_read call's input and outcome
  nsignals,            \* history: SIGINT/SIGTERM delivered
  setlog               \* history: who called shutdown_event.set(), in order

hostvars ==
  << native_mode, port, mainpc, handlers, shutdown_event, nm, stdin, stdin_eof, stdout, written,
     readlog, nsignals, setlog >>

DEFAULT_PORT == 7680

\* The process while the relay is studied by itself: listening in standalone
\* mode, with no controlling channel and no signal.
HostListening ==
  /\ native_mode = FALSE
  /\ port = DEFAULT_PORT
  /\ mainpc = "running"
  /\ handlers = TRUE
  /\ shutdown_event = FALSE
  /\ nm = "off"
  /\ stdin = <<>>
  /\ stdin_eof = FALSE
  /\ stdout = <<>>
  /\ written = <<>>
  /\ readlog = <<>>
  /\ nsignals = 0
  /\ setlog = <<>>

\* ------------------------------------------------------- dict operations
Range(s) == { s[i] : i \in 1..Len(s) }

RemoveAt(s, j) == [ i \in 1..(Len(s) - 1) |-> IF i < j THEN s[i] ELSE s[i + 1] ]

\* Index of email e in the browser dict's items, 0 when absent.
BrowserIndex(B, e) ==
  IF \E i \in 1..Len(B) : B[i].email = e
    THEN CHOOSE i \in 1..Len(B) : B[i].email = e
    ELSE 0

NoBrowser == [email |-> "", ws |-> NoConn, tools |-> <<>>, tool_schemas |-> <<>>]

\* self.browsers.get(e)
BrowserGet(B, e) == IF BrowserIndex(B, e) = 0 THEN NoBrowser ELSE B[BrowserIndex(B, e)]

\* self.browsers[bc.email] = bc: an existing key keeps its place.
BrowserSet(B, bc) ==
  IF BrowserIndex(B, bc.email) = 0
    THEN Append(B, bc)
    ELSE [B EXCEPT ![BrowserIndex(B, bc.email)] = bc]

\* del self.browsers[e]
BrowserDel(B, e) == RemoveAt(B, BrowserIndex(B, e))

PendingIndex(P, t) ==
  IF \E i \in 1..Len(P) : P[i].tid = t
    THEN CHOOSE i \in 1..Len(P) : P[i].tid = t
    ELSE 0

\* self.pending_requests[t] = a
PendingSet(P, t, a) ==
  IF PendingIndex(P, t) = 0
    THEN Append(P, [tid |-> t, agent |-> a])
    ELSE [P EXCEPT ![PendingIndex(P, t)] = [tid |-> t, agent |-> a]]

\* A variant pop that leaves the entry in the dict; C14_ToolResultRouting
\* tells it from dict.pop.
PendingPop_keeping(P, t) == P

\* self.pending_requests.pop(t, None): the dict afterwards
PendingPop(P, t) == IF PendingIndex(P, t) = 0 THEN P ELSE RemoveAt(P, PendingIndex(P, t))

\* self.pending_requests.pop(t, None): the value popped
PendingGet(P, t) == IF PendingIndex(P, t) = 0 THEN NoConn ELSE P[PendingIndex(P, t)].agent

\* ------------------------------------------------------------ task records
BlankIt == [pos |-> 0, used |-> 0, left |-> 0]

BlankTask ==
  [ pc |-> "none", email |-> "", ann |-> <<>>, tid |-> "", to |-> NoConn,
    it |-> BlankIt, futures |-> <<>>, k |-> 0, all_groups |-> <<>>,
    ems |-> <<>>, stale |-> <<>>, removed |-> FALSE, exc |-> FALSE ]

IdleTask == [BlankTask EXCEPT !.pc = "idle"]
DoneTask == [BlankTask EXCEPT !.pc = "done"]

NoFut == [state |-> "none", result |-> <<>>]
PendingFut == [state |-> "pending", result |-> <<>>]
CancelledFut == [state |-> "cancelled", result |-> <<>>]
DoneFut(r) == [state |-> "done", result |-> r]

\* n: tool_calls received with this id; to: the connection the latest one
\* resolved to; fwd: forwards handed to a Browser's transport; fails: forwards
\* that raised.
NoCall == [n |-> 0, to |-> NoConn, fwd |-> 0, fails |-> 0]

NoTabReq == [n |-> 0, phase |-> "none", asked |-> {}, answered |-> {}, reply |-> <<>>]

\* The shared state as one value, so that a handler is a function of it.
World ==
  [ conn |-> conn, unclassified |-> unclassified, agents |-> agents,
    browsers |-> browsers, pending_requests |-> pending_requests,
    pending_list_tools |-> pending_list_tools,
    pending_tab_groups |-> pending_tab_groups, fut |-> fut, task |-> task,
    sent |-> sent, calls |-> calls, tabreqs |-> tabreqs, why |-> why,
    nreplies |-> nreplies, announced |-> announced ]

Apply(w) ==
  /\ conn' = w.conn
  /\ unclassified' = w.unclassified
  /\ agents' = w.agents
  /\ browsers' = w.browsers
  /\ pending_requests' = w.pending_requests
  /\ pending_list_tools' = w.pending_list_tools
  /\ pending_tab_groups' = w.pending_tab_groups
  /\ fut' = w.fut
  /\ task' = w.task
  /\ sent' = w.sent
  /\ calls' = w.calls
  /\ tabreqs' = w.tabreqs
  /\ why' = w.why
  /\ nreplies' = w.nreplies
  /\ announced' = w.announced
  /\ UNCHANGED hostvars

\* A variant send that puts the message in front of what the connection was
\* sent before; C24_FifoPerConnection tells it from ws.send.
Deliver_in_front(w, c, m) == [w EXCEPT !.sent[c] = <<m>> \o @]

\* ws.send(m) on an open connection: the peer is sent m.
Deliver(w, c, m) == [w EXCEPT !.sent[c] = Append(@, m)]

\* ------------------------------------------------------------- messages
\* The synthetic tool_result replies; content names the f-string's case.
ErrorResult(t, why_) ==
  [type |-> "tool_result", tool_use_id |-> t, content |-> why_, is_error |-> TRUE]

\* _no_browser_error()
no_browser_error(B) ==
  IF Len(B) = 0
    THEN [type |-> "error", message |-> "No browser connected"]
    ELSE [type |-> "error", message |-> "Multiple browsers connected"]

\* A variant resolution that looks at the number of Browsers before the hint;
\* C5_Resolution tells it from _resolve_browser.
resolve_browser_single_first(B, hint) ==
  IF Len(B) = 1 THEN B[1]
  ELSE IF hint # NoHint THEN BrowserGet(B, hint)
  ELSE NoBrowser

\* _resolve_browser(browser_hint): the BrowserConnection, or NoBrowser for None
resolve_browser(B, hint) ==
  IF Len(B) = 0 THEN NoBrowser
  ELSE IF hint # NoHint THEN BrowserGet(B, hint)
  ELSE IF Len(B) = 1 THEN B[1]
  ELSE NoBrowser

\* _find_browser_email(ws): the first email registered to ws, "" for None
find_browser_email(B, ws) ==
  IF \E i \in 1..Len(B) : B[i].ws = ws
    THEN B[CHOOSE i \in 1..Len(B) : B[i].ws = ws /\ \A j \in 1..(i - 1) : B[j].ws # ws].email
    ELSE ""

\* ---------------------------------------------------------------- cleanup
\* [e for e, bc in self.browsers.items() if bc.ws is ws]
RECURSIVE emails_to_remove(_, _)
emails_to_remove(B, ws) ==
  IF B = <<>> THEN <<>>
  ELSE IF Head(B).ws = ws THEN <<Head(B).email>> \o emails_to_remove(Tail(B), ws)
  ELSE emails_to_remove(Tail(B), ws)

\* [k for k, v in self.pending_requests.items() if v is ws], then del each
DropRequestsOf(P, ws) == SelectSeq(P, LAMBDA r : r.agent # ws)

\* A dict iterator suspended in the fan-out loop holds an index into the
\* dict's entries; deleting entry j leaves a hole there, so an iterator that
\* is past j has one live entry fewer behind it.
ShiftIterators(T, j) ==
  [ a \in Conns |->
      IF T[a].pc = "fan" /\ j <= T[a].it.pos
        THEN [T[a] EXCEPT !.it.pos = @ - 1]
        ELSE T[a] ]

\* cleanup(ws) from the task's position to its next suspension or its end.
\* pc "cl_emails": at the head of `for email in emails_to_remove`;
\* pc "cl_items": at the head of `for tid, agent_ws in stale_requests`.
RECURSIVE CleanupLoop(_, _)
CleanupLoop(w, c) ==
  LET t == w.task[c] IN
  IF t.pc = "cl_items"
    THEN IF t.stale = <<>>
           THEN CleanupLoop([w EXCEPT !.task[c].pc = "cl_emails"], c)
           ELSE LET item == Head(t.stale) IN
                IF w.conn[item.agent] # "open"
                  THEN \* send raises, except: pass, then the pop
                       CleanupLoop([w EXCEPT !.pending_requests = PendingPop(@, item.tid),
                                             !.task[c].stale = Tail(@)], c)
                  ELSE [Deliver(w, item.agent, ErrorResult(item.tid, "disconnected"))
                          EXCEPT !.task[c].pc = "cl_send"]
    ELSE IF t.ems = <<>>
           THEN [w EXCEPT
                   !.pending_requests =
                      IF c \in w.agents \/ ~t.removed THEN DropRequestsOf(@, c) ELSE @,
                   !.task[c] = DoneTask,
                   !.sent[c] = <<>>,
                   !.conn[c] = "closed",
                   !.why[c] = IF w.conn[c] = "open" THEN "crash" ELSE @]
           ELSE LET e == Head(t.ems) IN
                IF BrowserIndex(w.browsers, e) = 0
                  THEN \* del self.browsers[email] raises KeyError: another
                       \* connection took the email over and has gone since
                       [w EXCEPT !.task[c] = DoneTask,
                                 !.sent[c] = <<>>,
                                 !.conn[c] = "closed",
                                 !.why[c] = IF w.conn[c] = "open" THEN "crash" ELSE @]
                ELSE
                CleanupLoop([w EXCEPT
                   !.browsers = BrowserDel(@, e),
                   !.task = [ShiftIterators(@, BrowserIndex(w.browsers, e)) EXCEPT
                               ![c].ems = Tail(t.ems),
                               ![c].email = e,
                               ![c].stale = w.pending_requests,
                               ![c].removed = TRUE,
                               ![c].pc = "cl_items"]], c)

\* cleanup(ws); exc: the handler is ending with an exception other than
\* ConnectionClosed, after which the server closes the connection.
cleanup(w, c, exc) ==
  CleanupLoop([w EXCEPT
     !.unclassified = @ \ {c},
     !.agents = @ \ {c},
     !.task[c] = [BlankTask EXCEPT !.pc = "cl_emails", !.exc = exc,
                                   !.ems = emails_to_remove(w.browsers, c)],
     !.tabreqs[c].phase = IF @ \in {"fan", "wait"} THEN "aborted" ELSE @], c)

\* Resuming after `await agent_ws.send(...)` in cleanup: the pop, then on.
cleanup_resume(w, c) ==
  CleanupLoop([w EXCEPT
     !.pending_requests = PendingPop(@, Head(w.task[c].stale).tid),
     !.task[c].stale = Tail(@),
     !.task[c].pc = "cl_items"], c)

\* `await ws.send(m)` as the handler's last statement, ws the task's own
\* connection: ConnectionClosed ends the handler's loop and cleanup runs.
ReplyFinal(w, c, m) ==
  IF w.conn[c] = "open"
    THEN [Deliver(w, c, m) EXCEPT !.task[c] = IdleTask]
    ELSE cleanup(w, c, FALSE)

\* ------------------------------------------------------- list_tab_groups
\* futures[email] = fut: the local dict's keys, in insertion order
KeyAdd(ks, e) == IF e \in Range(ks) THEN ks ELSE Append(ks, e)

\* How many list_tab_groups requests connection b was sent so far.
Asked(w, b) == Len(SelectSeq(w.sent[b], LAMBDA m : m.type = "list_tab_groups"))

\* `for email, bc in self.browsers.items():` from the iterator's position to
\* the next suspension (pc "fan"), the end of the loop (pc "fan_end") or the
\* RuntimeError the dict iterator raises when the dict was resized or its
\* keys changed (pc "fan_error").
RECURSIVE FanLoop(_, _)
FanLoop(w, c) ==
  LET t == w.task[c]
      n == Len(w.browsers)
  IN
  IF n # t.it.used THEN [w EXCEPT !.task[c].pc = "fan_error"]
  ELSE IF t.it.pos >= n THEN [w EXCEPT !.task[c].pc = "fan_end"]
  ELSE IF t.it.left = 0 THEN [w EXCEPT !.task[c].pc = "fan_error"]
  ELSE
    LET bc == w.browsers[t.it.pos + 1]
        w1 == [w EXCEPT
                 !.task[c].it.pos = @ + 1,
                 !.task[c].it.left = @ - 1,
                 !.fut[c][bc.email] = PendingFut,
                 !.pending_tab_groups[bc.email] = c,
                 !.task[c].futures = KeyAdd(@, bc.email),
                 !.task[c].email = bc.email,
                 !.task[c].to = bc.ws]
    IN
    IF w.conn[bc.ws] # "open"
      THEN \* send raises: fut.set_result([])
           FanLoop([w1 EXCEPT !.fut[c][bc.email] = DoneFut(<<>>)], c)
      ELSE [Deliver(w1, bc.ws, [type |-> "list_tab_groups"]) EXCEPT
              !.task[c].pc = "fan",
              !.tabreqs[c].asked =
                 @ \cup {[email |-> bc.email, ws |-> bc.ws, ord |-> Asked(w, bc.ws) + 1]}]

\* for g in groups: g["browser"] = email
TagGroups(groups, e) == [ i \in 1..Len(groups) |-> [id |-> groups[i].id, browser |-> e] ]

\* `for email, fut in futures.items():` from entry k to the next suspension
\* (pc "wait": the Future is not done) or the end of the loop (pc "wait_end").
\* A Future that is done is returned by wait_for without suspending.
RECURSIVE WaitLoop(_, _)
WaitLoop(w, c) ==
  LET t == w.task[c] IN
  IF t.k > Len(t.futures) THEN [w EXCEPT !.task[c].pc = "wait_end"]
  ELSE
    LET e == t.futures[t.k] IN
    IF w.fut[c][e].state = "done"
      THEN WaitLoop([w EXCEPT
                       !.task[c].all_groups = @ \o TagGroups(w.fut[c][e].result, e),
                       !.pending_tab_groups[e] = NoConn,
                       !.task[c].k = @ + 1], c)
      ELSE [w EXCEPT !.task[c].pc = "wait"]

\* The wait loop and, after it, the one reply.
WaitRun(w, c) ==
  LET r == WaitLoop(w, c) IN
  IF r.task[c].pc = "wait"
    THEN r
    ELSE ReplyFinal([r EXCEPT
                       !.tabreqs[c].phase = IF r.conn[c] = "open" THEN "replied" ELSE "aborted",
                       !.tabreqs[c].reply = IF r.conn[c] = "open" THEN r.task[c].all_groups ELSE @],
                    c, [type |-> "tab_groups_list", groups |-> r.task[c].all_groups])

\* The fan-out loop and what follows it.
FanRun(w, c) ==
  LET r == FanLoop(w, c) IN
  CASE r.task[c].pc = "fan" -> r
    [] r.task[c].pc = "fan_error" -> cleanup(r, c, TRUE)
    [] OTHER -> WaitRun([r EXCEPT !.task[c].pc = "wait", !.task[c].k = 1,
                                  !.tabreqs[c].phase = "wait"], c)

\* Resuming after `await bc.ws.send(...)` in the fan-out loop.  raised: the
\* send raised; fut.set_result([]) on a Future that the Browser's reply has
\* already resolved raises InvalidStateError inside the except block.
fan_resume(w, c, raised) ==
  LET e == w.task[c].email IN
  IF ~raised THEN FanRun(w, c)
  ELSE IF w.fut[c][e].state = "pending"
    THEN FanRun([w EXCEPT !.fut[c][e] = DoneFut(<<>>)], c)
    ELSE cleanup(w, c, TRUE)

\* Resuming in `await asyncio.wait_for(fut, timeout=5)` with the result set.
wait_resume(w, c) == WaitRun(w, c)

\* asyncio.TimeoutError: wait_for cancels the Future; finally: the pop.
wait_timeout(w, c) ==
  LET e == w.task[c].futures[w.task[c].k] IN
  WaitRun([w EXCEPT !.fut[c][e] = CancelledFut,
                    !.pending_tab_groups[e] = NoConn,
                    !.task[c].k = @ + 1], c)

\* ------------------------------------------------- handle_agent_message
\* {k: v for k, v in msg.items() if k != "browser"}
Forward(m) == [type |-> m.type, tool_use_id |-> m.tool_use_id]

BrowsersInfo(B) ==
  [ i \in 1..Len(B) |-> [email |-> B[i].email, tools_count |-> Len(B[i].tools)] ]

ToolListReply(B, bc) ==
  IF Len(B) > 1
    THEN [type |-> "tool_list", tools |-> bc.tools, tool_schemas |-> bc.tool_schemas,
          browser |-> bc.email, note |-> "Multiple browsers connected"]
    ELSE [type |-> "tool_list", tools |-> bc.tools, tool_schemas |-> bc.tool_schemas,
          browser |-> bc.email]

\* A variant tool_call branch that records the pending entry before it
\* resolves the target; C6_ResolutionFailure tells it from the code's.
agent_tool_call_recording_first(w, c, m) ==
  LET browser == resolve_browser(w.browsers, m.browser)
      t == m.tool_use_id
      w0 == [w EXCEPT !.calls[c][t].n = @ + 1, !.calls[c][t].to = browser.ws,
                      !.pending_requests = PendingSet(@, t, c)]
  IN
  IF browser.ws = NoConn
    THEN ReplyFinal(w0, c, ErrorResult(t, no_browser_error(w.browsers).message))
    ELSE
      IF w.conn[browser.ws] # "open"
        THEN ReplyFinal([w0 EXCEPT !.pending_requests = PendingPop(@, t),
                                   !.calls[c][t].fails = @ + 1], c,
                        ErrorResult(t, "Failed to send to browser"))
        ELSE [Deliver(w0, browser.ws, Forward(m)) EXCEPT
                !.calls[c][t].fwd = @ + 1,
                !.task[c] = [BlankTask EXCEPT !.pc = "fwd", !.tid = t, !.to = browser.ws]]

\* The tool_call branch, to the suspension in `await browser.ws.send(...)`.
agent_tool_call(w, c, m) ==
  LET browser == resolve_browser(w.browsers, m.browser)
      t == m.tool_use_id
      w0 == [w EXCEPT !.calls[c][t].n = @ + 1, !.calls[c][t].to = browser.ws]
  IN
  IF browser.ws = NoConn
    THEN ReplyFinal(w0, c, ErrorResult(t, no_browser_error(w.browsers).message))
    ELSE
      LET w1 == [w0 EXCEPT !.pending_requests = PendingSet(@, t, c)] IN
      IF w.conn[browser.ws] # "open"
        THEN ReplyFinal([w1 EXCEPT !.pending_requests = PendingPop(@, t),
                                   !.calls[c][t].fails = @ + 1], c,
                        ErrorResult(t, "Failed to send to browser"))
        ELSE [Deliver(w1, browser.ws, Forward(m)) EXCEPT
                !.calls[c][t].fwd = @ + 1,
                !.task[c] = [BlankTask EXCEPT !.pc = "fwd", !.tid = t, !.to = browser.ws]]

\* A variant resumption that replies on a failed forward but keeps the
\* pending entry; C7_ForwardFailure tells it from the code's.
forward_resume_keeping_entry(w, c, raised) ==
  IF ~raised
    THEN [w EXCEPT !.task[c] = IdleTask]
    ELSE ReplyFinal([w EXCEPT !.calls[c][w.task[c].tid].fails = @ + 1], c,
                    ErrorResult(w.task[c].tid, "Failed to send to browser"))

\* Resuming after `await browser.ws.send(...)` of a tool_call.
forward_resume(w, c, raised) ==
  IF ~raised
    THEN [w EXCEPT !.task[c] = IdleTask]
    ELSE ReplyFinal([w EXCEPT !.pending_requests = PendingPop(@, w.task[c].tid),
                              !.calls[c][w.task[c].tid].fails = @ + 1], c,
                    ErrorResult(w.task[c].tid, "Failed to send to browser"))

\* A variant list_tab_groups branch that makes a slot before it looks at the
\* registry; C11_EmptyFanOut tells it from the code's.
agent_list_tab_groups_slot_first(w, c) ==
  FanRun([w EXCEPT
     !.task[c] = [BlankTask EXCEPT
                    !.pc = "fan",
                    !.it = [pos |-> 0, used |-> Len(w.browsers), left |-> Len(w.browsers)]],
     !.fut[c] = [e \in Emails |-> NoFut],
     !.pending_tab_groups["a@x"] = c,
     !.tabreqs[c] = [NoTabReq EXCEPT !.n = w.tabreqs[c].n + 1, !.phase = "fan"]], c)

agent_list_tab_groups(w, c) ==
  FanRun([w EXCEPT
     !.task[c] = [BlankTask EXCEPT
                    !.pc = "fan",
                    !.it = [pos |-> 0, used |-> Len(w.browsers), left |-> Len(w.browsers)]],
     !.fut[c] = [e \in Emails |-> NoFut],
     !.tabreqs[c] = [NoTabReq EXCEPT !.n = w.tabreqs[c].n + 1, !.phase = "fan"]], c)

\* A variant whose list_tools branch asks the Browser and records the Agent
\* as waiting for the Browser's tool_list; C29_NoListToolsFlow tells it from
\* the code's.
handle_agent_message_asking(w, c, m) ==
  CASE m.type = "list_browsers" ->
         ReplyFinal(w, c, [type |-> "browsers_list", browsers |-> BrowsersInfo(w.browsers)])
    [] m.type = "list_tools" ->
         LET browser == resolve_browser(w.browsers, m.browser) IN
         IF browser.ws = NoConn
           THEN ReplyFinal(w, c, no_browser_error(w.browsers))
           ELSE LET w1 == [w EXCEPT
                             !.pending_list_tools =
                                Append(SelectSeq(@, LAMBDA x : x.email # browser.email),
                                       [email |-> browser.email, agent |-> c]),
                             !.task[c] = IdleTask]
                IN IF w.conn[browser.ws] = "open"
                     THEN Deliver(w1, browser.ws, [type |-> "list_tools"])
                     ELSE w1
    [] m.type = "tool_call" -> agent_tool_call(w, c, m)
    [] m.type = "list_tab_groups" -> agent_list_tab_groups(w, c)
    [] OTHER -> [w EXCEPT !.task[c] = IdleTask]

handle_agent_message(w, c, m) ==
  CASE m.type = "list_browsers" ->
         ReplyFinal(w, c, [type |-> "browsers_list", browsers |-> BrowsersInfo(w.browsers)])
    [] m.type = "list_tools" ->
         LET browser == resolve_browser(w.browsers, m.browser) IN
         IF browser.ws = NoConn
           THEN ReplyFinal(w, c, no_browser_error(w.browsers))
           ELSE ReplyFinal(w, c, ToolListReply(w.browsers, browser))
    [] m.type = "tool_call" -> agent_tool_call(w, c, m)
    [] m.type = "list_tab_groups" -> agent_list_tab_groups(w, c)
    [] OTHER -> [w EXCEPT !.task[c] = IdleTask]

\* ----------------------------------------------- handle_browser_message
\* `await agent_ws.send(...)` inside try/except Exception: pass, as the
\* handler's last statement.
SendIgnoringErrors(w, a, m) == IF w.conn[a] = "open" THEN Deliver(w, a, m) ELSE w

ListToolsIndex(L, e) ==
  IF \E i \in 1..Len(L) : L[i].email = e
    THEN CHOOSE i \in 1..Len(L) : L[i].email = e
    ELSE 0

\* History: the Browser on connection b has now sent its n-th tab_groups_list;
\* it answers every request that b was sent as its n-th or earlier and whose
\* slot has not timed out.
NoteTabReply(w, b, n) ==
  [ a \in Conns |->
      IF w.tabreqs[a].phase \in {"fan", "wait"}
        THEN [w.tabreqs[a] EXCEPT !.answered =
                @ \cup { x.email : x \in { y \in w.tabreqs[a].asked :
                           /\ y.ws = b
                           /\ y.ord <= n
                           /\ w.fut[a][y.email].state # "cancelled" } }]
        ELSE w.tabreqs[a] ]

\* A variant that answers a message of a type it does not know with an
\* error; C25_UnknownDropped tells it from the code's.
handle_browser_message_replying(w, c, m) ==
  CASE m.type = "tool_result" ->
         LET agent_ws == PendingGet(w.pending_requests, m.tool_use_id)
             w1 == [w EXCEPT !.pending_requests = PendingPop(@, m.tool_use_id),
                             !.task[c] = IdleTask]
         IN IF agent_ws # NoConn THEN SendIgnoringErrors(w1, agent_ws, m) ELSE w1
    [] m.type = "tool_list" ->
         LET email == find_browser_email(w.browsers, c)
             i == ListToolsIndex(w.pending_list_tools, email)
             w1 == [w EXCEPT !.task[c] = IdleTask]
         IN IF email # "" /\ i # 0
              THEN SendIgnoringErrors(
                     [w1 EXCEPT !.pending_list_tools = RemoveAt(@, i)],
                     w.pending_list_tools[i].agent, m)
              ELSE w1
    [] m.type = "tab_groups_list" ->
         LET email == find_browser_email(w.browsers, c)
             w1 == [w EXCEPT !.task[c] = IdleTask,
                             !.nreplies[c] = @ + 1,
                             !.tabreqs = NoteTabReply(w, c, w.nreplies[c] + 1)]
             owner == IF email = "" THEN NoConn ELSE w.pending_tab_groups[email]
         IN IF owner # NoConn /\ w.fut[owner][email].state = "pending"
              THEN [w1 EXCEPT !.fut[owner][email] = DoneFut(m.groups)]
              ELSE w1
    [] m.type = "pong" -> [w EXCEPT !.task[c] = IdleTask]
    [] OTHER -> ReplyFinal(w, c, [type |-> "error", message |-> "Unknown message type"])

\* A variant that relays a tool_result only when it comes from the
\* connection the call was forwarded to; C27_ResultRoutingById tells it from
\* the code's.
handle_browser_message_checking(w, c, m) ==
  CASE m.type = "tool_result" ->
         LET agent_ws == PendingGet(w.pending_requests, m.tool_use_id)
             w1 == [w EXCEPT !.pending_requests = PendingPop(@, m.tool_use_id),
                             !.task[c] = IdleTask]
         IN IF agent_ws # NoConn
              THEN IF w.calls[agent_ws][m.tool_use_id].to = c
                     THEN SendIgnoringErrors(w1, agent_ws, m)
                     ELSE [w EXCEPT !.task[c] = IdleTask]
              ELSE w1
    [] m.type = "tool_list" ->
         LET email == find_browser_email(w.browsers, c)
             i == ListToolsIndex(w.pending_list_tools, email)
             w1 == [w EXCEPT !.task[c] = IdleTask]
         IN IF email # "" /\ i # 0
              THEN SendIgnoringErrors(
                     [w1 EXCEPT !.pending_list_tools = RemoveAt(@, i)],
                     w.pending_list_tools[i].agent, m)
              ELSE w1
    [] m.type = "tab_groups_list" ->
         LET email == find_browser_email(w.browsers, c)
             w1 == [w EXCEPT !.task[c] = IdleTask,
                             !.nreplies[c] = @ + 1,
                             !.tabreqs = NoteTabReply(w, c, w.nreplies[c] + 1)]
             owner == IF email = "" THEN NoConn ELSE w.pending_tab_groups[email]
         IN IF owner # NoConn /\ w.fut[owner][email].state = "pending"
              THEN [w1 EXCEPT !.fut[owner][email] = DoneFut(m.groups)]
              ELSE w1
    [] OTHER -> [w EXCEPT !.task[c] = IdleTask]

handle_browser_message(w, c, m) ==
  CASE m.type = "tool_result" ->
         LET agent_ws == PendingGet(w.pending_requests, m.tool_use_id)
             w1 == [w EXCEPT !.pending_requests = PendingPop(@, m.tool_use_id),
                             !.task[c] = IdleTask]
         IN IF agent_ws # NoConn THEN SendIgnoringErrors(w1, agent_ws, m) ELSE w1
    [] m.type = "tool_list" ->
         LET email == find_browser_email(w.browsers, c)
             i == ListToolsIndex(w.pending_list_tools, email)
             w1 == [w EXCEPT !.task[c] = IdleTask]
         IN IF email # "" /\ i # 0
              THEN SendIgnoringErrors(
                     [w1 EXCEPT !.pending_list_tools = RemoveAt(@, i)],
                     w.pending_list_tools[i].agent, m)
              ELSE w1
    [] m.type = "tab_groups_list" ->
         LET email == find_browser_email(w.browsers, c)
             w1 == [w EXCEPT !.task[c] = IdleTask,
                             !.nreplies[c] = @ + 1,
                             !.tabreqs = NoteTabReply(w, c, w.nreplies[c] + 1)]
             owner == IF email = "" THEN NoConn ELSE w.pending_tab_groups[email]
         IN IF owner # NoConn /\ w.fut[owner][email].state = "pending"
              THEN [w1 EXCEPT !.fut[owner][email] = DoneFut(m.groups)]
              ELSE w1
    [] OTHER -> [w EXCEPT !.task[c] = IdleTask]

\* ---------------------------------------------------------- route_message
\* To the suspension in `await old.ws.close()`, or to the handler's end.
route_message(w, c, m) ==
  IF m.type = "extension_connected"
    THEN
      LET w1 == [w EXCEPT !.unclassified = @ \ {c}]
          old == BrowserGet(w.browsers, m.email)
          bc == [email |-> m.email, ws |-> c, tools |-> m.tools,
                 tool_schemas |-> m.tool_schemas]
      IN
      IF old.ws # NoConn /\ old.ws # c
        THEN [w1 EXCEPT
                !.conn[old.ws] = "closed",
                !.why[old.ws] = IF w.conn[old.ws] = "open" THEN "replaced" ELSE @,
                !.task[c] = [BlankTask EXCEPT !.pc = "closing", !.email = m.email,
                                              !.ann = bc, !.to = old.ws]]
        ELSE [w1 EXCEPT !.browsers = BrowserSet(@, bc), !.task[c] = IdleTask,
                        !.announced[c] = @ \cup {m.email}]
    ELSE
      LET w1 == IF c \in w.unclassified
                  THEN [w EXCEPT !.unclassified = @ \ {c}, !.agents = @ \cup {c}]
                  ELSE w
      IN
      IF c \in w1.agents
        THEN handle_agent_message(w1, c, m)
        ELSE handle_browser_message(w1, c, m)

\* Resuming after `await old.ws.close()`: self.browsers[email] = ...
close_resume(w, c) ==
  [w EXCEPT !.browsers = BrowserSet(@, w.task[c].ann), !.task[c] = IdleTask,
            !.announced[c] = @ \cup {w.task[c].email}]

\* The relay with no connection yet: WebRigServer.__init__.
RelayIdle ==
  /\ conn = [c \in Conns |-> "none"]
  /\ unclassified = {}
  /\ agents = {}
  /\ browsers = <<>>
  /\ pending_requests = <<>>
  /\ pending_list_tools = <<>>
  /\ pending_tab_groups = [e \in Emails |-> NoConn]
  /\ fut = [c \in Conns |-> [e \in Emails |-> NoFut]]
  /\ task = [c \in Conns |-> BlankTask]
  /\ sent = [c \in Conns |-> <<>>]
  /\ peer = [c \in Conns |-> ""]
  /\ nrecv = 0
  /\ calls = [c \in Conns |-> [t \in Tids |-> NoCall]]
  /\ ncloses = 0
  /\ tabreqs = [c \in Conns |-> NoTabReq]
  /\ why = [c \in Conns |-> ""]
  /\ nreplies = [c \in Conns |-> 0]
  /\ announced = [c \in Conns |-> {}]
  /\ annat = [c \in Conns |-> [e \in Emails |-> 0]]
  /\ arrival = [c \in Conns |-> [ty \in {"tool_call", "tool_result"} |->
                                   [t \in Tids |-> [n |-> 0, at |-> 0]]]]
  /\ toollists = [c \in Conns |-> 0]

Init ==
  /\ RelayIdle
  /\ mix \in Mixes
  /\ HostListening

\* ------------------------------------------------- native messaging I/O
\* Python values that JSON can represent: None, int, str, list, dict with
\* str keys; a dict's items are kept in insertion order.
PyNone == [py |-> "None"]
PyInt(n) == [py |-> "int", n |-> n]
PyStr(s) == [py |-> "str", s |-> s]
PyList == [py |-> "list"]
PyDict(items) == [py |-> "dict", items |-> items]

\* msg.get(key, ""): the str under key, "" for a missing key
DictGet(d, key) ==
  IF \E i \in 1..Len(d.items) : d.items[i][1] = key
    THEN d.items[CHOOSE i \in 1..Len(d.items) : d.items[i][1] = key][2].s
    ELSE ""

\* The frames of the protocol and the other values used as payloads.
TypeOnly(ty) == PyDict(<< <<"type", PyStr(ty)>> >>)
Ready(p) == PyDict(<< <<"type", PyStr("ready")>>, <<"ws_port", PyInt(p)>> >>)
Pong == PyDict(<< <<"type", PyStr("pong")>>, <<"status", PyStr("running")>> >>)
Status(p) ==
  PyDict(<< <<"type", PyStr("status")>>, <<"ws_port", PyInt(p)>>,
            <<"status", PyStr("running")>> >>)
Ports == {DEFAULT_PORT, DEFAULT_PORT + 1}
InboundValues ==
  { TypeOnly("ping"), TypeOnly("get_status"), TypeOnly("noop"), PyDict(<<>>),
    PyList, PyStr("hi"), PyInt(7), PyNone }
OutboundValues == {Pong} \cup { Ready(p) : p \in Ports } \cup { Status(p) : p \in Ports }
JsonValues == InboundValues \cup OutboundValues

\* The characters of a str as json.dumps writes them between the quotes
\* (ensure_ascii), as ASCII codes.
JsonChars(s) ==
  CASE s = "" -> <<>>
    [] s = "hi" -> <<104, 105>>
    [] s = "type" -> <<116, 121, 112, 101>>
    [] s = "ping" -> <<112, 105, 110, 103>>
    [] s = "pong" -> <<112, 111, 110, 103>>
    [] s = "noop" -> <<110, 111, 111, 112>>
    [] s = "ready" -> <<114, 101, 97, 100, 121>>
    [] s = "status" -> <<115, 116, 97, 116, 117, 115>>
    [] s = "running" -> <<114, 117, 110, 110, 105, 110, 103>>
    [] s = "ws_port" -> <<119, 115, 95, 112, 111, 114, 116>>
    [] s = "get_status" -> <<103, 101, 116, 95, 115, 116, 97, 116, 117, 115>>

\* The decimal digits of n >= 0, as ASCII codes.
RECURSIVE Digits(_)
Digits(n) == IF n < 10 THEN <<48 + n>> ELSE Digits(n \div 10) \o <<48 + (n % 10)>>

\* json.dumps(v).encode("utf-8")
RECURSIVE JsonText(_)
RECURSIVE JsonItems(_)
JsonItems(items) ==
  IF items = <<>> THEN <<>>
  ELSE <<34>> \o JsonChars(Head(items)[1]) \o <<34, 58, 32>> \o JsonText(Head(items)[2])
         \o (IF Tail(items) = <<>> THEN <<>> ELSE <<44, 32>> \o JsonItems(Tail(items)))
JsonText(v) ==
  CASE v.py = "None" -> <<110, 117, 108, 108>>
    [] v.py = "int" -> Digits(v.n)
    [] v.py = "str" -> <<34>> \o JsonChars(v.s) \o <<34>>
    [] v.py = "list" -> <<91, 93>>
    [] v.py = "dict" -> <<123>> \o JsonItems(v.items) \o <<125>>

\* json.loads(data.decode("utf-8")): the value whose text this is; raises
\* for bytes that are no JSON text.
JsonLoads(data) ==
  IF \E v \in JsonValues : JsonText(v) = data
    THEN [raised |-> FALSE, value |-> CHOOSE v \in JsonValues : JsonText(v) = data]
    ELSE [raised |-> TRUE, value |-> PyNone]

\* struct.pack("<I", n) and struct.unpack("<I", b)[0]
Pack(n) ==
  << n % 256, (n \div 256) % 256, (n \div 65536) % 256, (n \div 16777216) % 256 >>
Unpack(b) == b[1] + 256 * b[2] + 65536 * b[3] + 16777216 * b[4]

\* native_write(msg): the bytes on stdout afterwards
native_write(out, msg) == out \o Pack(Len(JsonText(msg))) \o JsonText(msg)

\* sys.stdin.buffer.read(n) on the pipe's bytes: all n bytes, or what is left
\* when the pipe was closed before n bytes came
Take(bytes, n) == SubSeq(bytes, 1, IF n < Len(bytes) THEN n ELSE Len(bytes))
Drop(bytes, n) == SubSeq(bytes, (IF n < Len(bytes) THEN n ELSE Len(bytes)) + 1, Len(bytes))

\* native_read() blocks: neither the bytes it waits for nor the end of the
\* stream are there.
ReadBlocks(bytes, eof) ==
  /\ ~eof
  /\ \/ Len(bytes) < 4
     \/ Len(bytes) < 4 + Unpack(Take(bytes, 4))

\* native_read(): what it returns (None is PyNone) or that it raises, and
\* the bytes left on the pipe.
native_read(bytes) ==
  LET raw_len == Take(bytes, 4) IN
  IF Len(raw_len) < 4
    THEN [raised |-> FALSE, value |-> PyNone, rest |-> Drop(bytes, 4)]
    ELSE
      LET msg_len == Unpack(raw_len)
          after == Drop(bytes, 4)
          raw_msg == Take(after, msg_len)
          parsed == JsonLoads(raw_msg)
      IN
      IF raw_msg = <<>>
        THEN [raised |-> FALSE, value |-> PyNone, rest |-> Drop(after, msg_len)]
        ELSE [raised |-> parsed.raised, value |-> parsed.value,
              rest |-> Drop(after, msg_len)]

\* ---------------------------------------------------------------- handler
\* The payloads of frames that are no message of the protocol: text that is
\* not JSON, a binary frame that is not UTF-8, JSON that is not an object,
\* and objects without a type the relay knows.
RawPayloads ==
  { <<123>>, <<255>>,
    JsonText(PyList), JsonText(PyStr("hi")), JsonText(PyInt(7)), JsonText(PyNone),
    JsonText(PyDict(<<>>)), JsonText(TypeOnly("noop")) }

RawVocabulary(mx) == IF mx = "mixed" THEN RawPayloads ELSE {}

\* The body of `async for raw_message in websocket` on one payload:
\* json.loads, `continue` on JSONDecodeError, else route_message.  Bytes
\* that are not UTF-8 raise UnicodeDecodeError and a value that is not a dict
\* raises AttributeError at msg.get: either ends the handler.
handler_body(w, c, raw) ==
  IF \E i \in 1..Len(raw) : raw[i] >= 128 THEN cleanup(w, c, TRUE)
  ELSE
    LET r == JsonLoads(raw) IN
    IF r.raised THEN w
    ELSE IF r.value.py # "dict" THEN cleanup(w, c, TRUE)
    ELSE route_message(w, c, [type |-> DictGet(r.value, "type")])

\* ----------------------------------------------------------------- actions
\* websockets.serve accepts a connection: handler() starts.  Connections are
\* numbered in the order they are accepted.  Until its first message arrives
\* a connection is read and written by no other task, so accepting it
\* commutes with every other step: it is accepted when no other open
\* connection is still waiting for its first message.
Connect(c, kind) ==
  /\ conn[c] = "none"
  /\ \A d \in Conns : d < c => conn[d] # "none"
  /\ \A d \in Conns : ~(conn[d] = "open" /\ d \in unclassified /\ task[d].pc = "idle")
  /\ kind \in PeerKinds(mix)
  /\ Apply([World EXCEPT !.conn[c] = "open",
                         !.unclassified = @ \cup {c},
                         !.task[c] = IdleTask])
  /\ peer' = [peer EXCEPT ![c] = kind]
  /\ UNCHANGED <<mix, nrecv, ncloses, annat, arrival, toollists>>

\* The peer closes, or the connection is lost.
PeerClose(c) ==
  /\ conn[c] = "open"
  /\ ncloses < MaxCloses
  /\ Apply([World EXCEPT !.conn[c] = "closed", !.why[c] = "peer"])
  /\ ncloses' = ncloses + 1
  /\ UNCHANGED <<mix, peer, nrecv, annat, arrival, toollists>>

\* `async for raw_message in websocket` yields a message: route_message.
Recv(c, m) ==
  /\ conn[c] = "open"
  /\ task[c].pc = "idle"
  /\ nrecv < Budget(mix)
  /\ Apply(route_message(World, c, m))
  /\ nrecv' = nrecv + 1
  /\ annat' = IF m.type = "extension_connected" /\ annat[c][m.email] = 0
                THEN [annat EXCEPT ![c][m.email] = nrecv + 1]
                ELSE annat
  /\ arrival' = IF m.type \in {"tool_call", "tool_result"}
                  THEN [arrival EXCEPT ![c][m.type][m.tool_use_id] =
                          [n |-> @.n + 1, at |-> nrecv + 1]]
                  ELSE arrival
  /\ toollists' = IF m.type = "tool_list"
                    THEN [toollists EXCEPT ![c] = @ + 1]
                    ELSE toollists
  /\ UNCHANGED <<mix, peer, ncloses>>

\* `async for raw_message in websocket` yields a payload that is no message
\* of the protocol.
RecvRaw(c, raw) ==
  /\ conn[c] = "open"
  /\ task[c].pc = "idle"
  /\ nrecv < Budget(mix)
  /\ Apply(handler_body(World, c, raw))
  /\ nrecv' = nrecv + 1
  /\ UNCHANGED <<mix, peer, ncloses, annat, arrival, toollists>>

\* The loop ends on a closed connection: finally: await self.cleanup(ws).
Disconnect(c) ==
  /\ conn[c] = "closed"
  /\ task[c].pc = "idle"
  /\ Apply(cleanup(World, c, FALSE))
  /\ UNCHANGED <<mix, peer, nrecv, ncloses, annat, arrival, toollists>>

CloseResume(c) ==
  /\ task[c].pc = "closing"
  /\ Apply(close_resume(World, c))
  /\ UNCHANGED <<mix, peer, nrecv, ncloses, annat, arrival, toollists>>

ForwardResume(c, raised) ==
  /\ task[c].pc = "fwd"
  /\ raised => conn[task[c].to] # "open"
  /\ Apply(forward_resume(World, c, raised))
  /\ UNCHANGED <<mix, peer, nrecv, ncloses, annat, arrival, toollists>>

FanResume(c, raised) ==
  /\ task[c].pc = "fan"
  /\ raised => conn[task[c].to] # "open"
  /\ Apply(fan_resume(World, c, raised))
  /\ UNCHANGED <<mix, peer, nrecv, ncloses, annat, arrival, toollists>>

WaitResume(c) ==
  /\ task[c].pc = "wait"
  /\ fut[c][task[c].futures[task[c].k]].state = "done"
  /\ Apply(wait_resume(World, c))
  /\ UNCHANGED <<mix, peer, nrecv, ncloses, annat, arrival, toollists>>

WaitTimeout(c) ==
  /\ task[c].pc = "wait"
  /\ fut[c][task[c].futures[task[c].k]].state = "pending"
  /\ Apply(wait_timeout(World, c))
  /\ UNCHANGED <<mix, peer, nrecv, ncloses, annat, arrival, toollists>>

CleanupResume(c) ==
  /\ task[c].pc = "cl_send"
  /\ Apply(cleanup_resume(World, c))
  /\ UNCHANGED <<mix, peer, nrecv, ncloses, annat, arrival, toollists>>

Next ==
  \/ \E c \in Conns, kind \in {"extension", "agent", "any"} : Connect(c, kind)
  \/ \E c \in Conns : PeerClose(c)
  \/ \E c \in Conns : \E m \in Vocabulary(mix) \cap Speaks(peer[c]) : Recv(c, m)
  \/ \E c \in Conns : \E raw \in RawVocabulary(mix) : RecvRaw(c, raw)
  \/ \E c \in Conns : Disconnect(c)
  \/ \E c \in Conns : CloseResume(c)
  \/ \E c \in Conns, raised \in BOOLEAN : ForwardResume(c, raised)
  \/ \E c \in Conns, raised \in BOOLEAN : FanResume(c, raised)
  \/ \E c \in Conns : WaitResume(c)
  \/ \E c \in Conns : WaitTimeout(c)
  \/ \E c \in Conns : CleanupResume(c)

Spec == Init /\ [][Next]_vars

\* The runs of the mixes "takeover" and "fifo": no list_tab_groups is sent
\* in them, so the steps of the fan-out and of the wait do not occur.
TakeoverInit ==
  /\ RelayIdle
  /\ mix = "takeover"
  /\ HostListening

CallsNext ==
  \/ \E c \in Conns, kind \in {"extension", "agent"} : Connect(c, kind)
  \/ \E c \in Conns : PeerClose(c)
  \/ \E c \in Conns : \E m \in Vocabulary(mix) \cap Speaks(peer[c]) : Recv(c, m)
  \/ \E c \in Conns : Disconnect(c)
  \/ \E c \in Conns : CloseResume(c)
  \/ \E c \in Conns, raised \in BOOLEAN : ForwardResume(c, raised)
  \/ \E c \in Conns : CleanupResume(c)

TakeoverSpec == TakeoverInit /\ [][CallsNext]_vars

FifoInit ==
  /\ RelayIdle
  /\ mix = "fifo"
  /\ HostListening

FifoSpec == FifoInit /\ [][CallsNext]_vars

\* ------------------------------------------------ native_messaging_loop
MaxFrames == 2       \* frames Chrome writes over a run
MaxSignals == 2      \* signals delivered over a run

\* loop_body with a failed read tried again instead of ending the loop.
loop_body_retrying(r, out) ==
  IF r.raised THEN [nm |-> "check", stdout |-> out]
  ELSE IF r.value = PyNone THEN [nm |-> "ended", stdout |-> out]
  ELSE IF r.value.py # "dict" THEN [nm |-> "ended", stdout |-> out]
  ELSE
    LET msg_type == DictGet(r.value, "type") IN
    CASE msg_type = "ping" -> [nm |-> "check", stdout |-> native_write(out, Pong)]
      [] msg_type = "get_status" ->
           [nm |-> "check", stdout |-> native_write(out, Status(DEFAULT_PORT))]
      [] OTHER -> [nm |-> "check", stdout |-> out]

\* One pass of the loop body on what native_read returned: where the loop
\* goes next ("ended": to the finally clause) and stdout afterwards.
loop_body(r, out) ==
  IF r.raised THEN [nm |-> "ended", stdout |-> out]
  ELSE IF r.value = PyNone THEN [nm |-> "ended", stdout |-> out]
  ELSE IF r.value.py # "dict" THEN [nm |-> "ended", stdout |-> out]
  ELSE
    LET msg_type == DictGet(r.value, "type") IN
    CASE msg_type = "ping" -> [nm |-> "check", stdout |-> native_write(out, Pong)]
      [] msg_type = "get_status" ->
           [nm |-> "check", stdout |-> native_write(out, Status(DEFAULT_PORT))]
      [] OTHER -> [nm |-> "check", stdout |-> out]

\* What Chrome can put on the pipe besides frames made by native_write's
\* format: a frame of length 0, a frame whose payload is no JSON, and three
\* frames cut short (whole: FALSE), after which the pipe can only be closed.
RawWrites ==
  { [bytes |-> Pack(0), whole |-> TRUE],
    [bytes |-> Pack(1) \o <<120>>, whole |-> TRUE],
    [bytes |-> <<4, 0>>, whole |-> FALSE],
    [bytes |-> Pack(4), whole |-> FALSE],
    [bytes |-> Pack(4) \o <<110, 117>>, whole |-> FALSE] }

NothingWritten == [wf |-> FALSE, value |-> PyNone, whole |-> FALSE]

\* The state before main() runs.
HostInit ==
  /\ RelayIdle
  /\ mix = "mixed"
  /\ native_mode \in BOOLEAN
  /\ port \in Ports
  /\ mainpc = "main"
  /\ handlers = FALSE
  /\ shutdown_event = FALSE
  /\ nm = "off"
  /\ stdin = <<>>
  /\ stdin_eof = FALSE
  /\ stdout = <<>>
  /\ written = <<>>
  /\ readlog = <<>>
  /\ nsignals = 0
  /\ setlog = <<>>

\* Chrome can write while it has not closed the pipe and its last frame was
\* a whole one.
ChromeCanWrite ==
  /\ native_mode
  /\ ~stdin_eof
  /\ mainpc # "stopped"
  /\ Len(written) + Len(readlog) < MaxFrames
  /\ written # <<>> => written[Len(written)].whole

\* Chrome sends a message, framed as native_write frames one.
ChromeWrite(v) ==
  /\ ChromeCanWrite
  /\ stdin' = native_write(stdin, v)
  /\ written' = Append(written, [wf |-> TRUE, value |-> v, whole |-> TRUE])
  /\ UNCHANGED <<native_mode, port, mainpc, handlers, shutdown_event, nm, stdin_eof, stdout,
                 readlog, nsignals, setlog>>
  /\ UNCHANGED vars

\* Chrome, or what stands in for it, writes other bytes.
ChromeWriteRaw(x) ==
  /\ ChromeCanWrite
  /\ stdin' = stdin \o x.bytes
  /\ written' = Append(written, [wf |-> FALSE, value |-> PyNone, whole |-> x.whole])
  /\ UNCHANGED <<native_mode, port, mainpc, handlers, shutdown_event, nm, stdin_eof, stdout,
                 readlog, nsignals, setlog>>
  /\ UNCHANGED vars

\* Chrome closes the port: end of stream on stdin.
ChromeClose ==
  /\ native_mode
  /\ ~stdin_eof
  /\ mainpc # "stopped"
  /\ stdin_eof' = TRUE
  /\ UNCHANGED <<native_mode, port, mainpc, handlers, shutdown_event, nm, stdin, stdout,
                 written, readlog, nsignals, setlog>>
  /\ UNCHANGED vars

\* `while not shutdown_event.is_set():`; when it is set, the finally clause.
NmCheck ==
  /\ nm = "check"
  /\ mainpc # "stopped"
  /\ IF shutdown_event
       THEN nm' = "ended" /\ setlog' = Append(setlog, "loop")
       ELSE nm' = "read" /\ setlog' = setlog
  /\ UNCHANGED <<native_mode, port, mainpc, handlers, shutdown_event, stdin, stdin_eof, stdout,
                 written, readlog, nsignals>>
  /\ UNCHANGED vars

\* native_read() returns or raises, then the loop body and, when the loop
\* ends, `finally: shutdown_event.set()`.
NmRead ==
  /\ nm = "read"
  /\ mainpc # "stopped"
  /\ ~ReadBlocks(stdin, stdin_eof)
  /\ LET r == native_read(stdin)
         b == loop_body(r, stdout)
         d == IF written = <<>> THEN NothingWritten ELSE Head(written)
     IN
     /\ stdin' = r.rest
     /\ written' = IF written = <<>> THEN written ELSE Tail(written)
     /\ readlog' = Append(readlog, [wf |-> d.wf, value |-> d.value, whole |-> d.whole,
                                    prefix |-> Len(Take(stdin, 4)), raised |-> r.raised,
                                    got |-> r.value])
     /\ stdout' = b.stdout
     /\ nm' = b.nm
     /\ shutdown_event' = IF b.nm = "ended" THEN TRUE ELSE shutdown_event
     /\ setlog' = IF b.nm = "ended" THEN Append(setlog, "loop") ELSE setlog
  /\ UNCHANGED <<native_mode, port, mainpc, handlers, stdin_eof, nsignals>>
  /\ UNCHANGED vars

\* --------------------------------------------------------------- main()
\* main() up to run_until_complete: in native mode the ready frame and the
\* liveness thread; then the signal handlers, which the platform's event
\* loop may refuse (NotImplementedError, passed over).
MainStart ==
  /\ mainpc = "main"
  /\ mainpc' = "serve"
  /\ stdout' = IF native_mode THEN native_write(stdout, Ready(port)) ELSE stdout
  /\ nm' = IF native_mode THEN "check" ELSE nm
  /\ handlers' \in BOOLEAN
  /\ UNCHANGED <<native_mode, port, shutdown_event, stdin, stdin_eof, written, readlog,
                 nsignals, setlog>>
  /\ UNCHANGED vars

\* run(): websockets.serve has bound the port.
Bind ==
  /\ mainpc = "serve"
  /\ mainpc' = "running"
  /\ UNCHANGED <<native_mode, port, handlers, shutdown_event, nm, stdin, stdin_eof, stdout,
                 written, readlog, nsignals, setlog>>
  /\ UNCHANGED vars

\* run(): websockets.serve raises (port taken); the exception leaves
\* run_until_complete and `finally: loop.close()` ends the process.
BindFail ==
  /\ mainpc = "serve"
  /\ mainpc' = "stopped"
  /\ UNCHANGED <<native_mode, port, handlers, shutdown_event, nm, stdin, stdin_eof, stdout,
                 written, readlog, nsignals, setlog>>
  /\ UNCHANGED vars

\* run(), native mode: the one-second poll finds the flag set and leaves the
\* `async with`, which starts closing the listener.
Poll ==
  /\ mainpc = "running"
  /\ native_mode
  /\ shutdown_event
  /\ mainpc' = "closing"
  /\ UNCHANGED <<native_mode, port, handlers, shutdown_event, nm, stdin, stdin_eof, stdout,
                 written, readlog, nsignals, setlog>>
  /\ UNCHANGED vars

\* The listener and its connections are closed; run_until_complete returns
\* and the loop is closed.
Closed ==
  /\ mainpc = "closing"
  /\ mainpc' = "stopped"
  /\ UNCHANGED <<native_mode, port, handlers, shutdown_event, nm, stdin, stdin_eof, stdout,
                 written, readlog, nsignals, setlog>>
  /\ UNCHANGED vars

\* Where cancelling every task takes main(): a task waiting in serve or in
\* the closing of the listener ends at once, a serving one leaves the
\* `async with` first.
Cancelled(pc) ==
  CASE pc = "running" -> "closing"
    [] OTHER -> "stopped"

\* SIGINT or SIGTERM. With the handlers installed, shutdown() sets the flag
\* and cancels every task; without them the signal's default action or the
\* KeyboardInterrupt ends the process.
Interrupt ==
  /\ nsignals < MaxSignals
  /\ mainpc # "stopped"
  /\ nsignals' = nsignals + 1
  /\ IF handlers /\ mainpc # "main"
       THEN /\ shutdown_event' = TRUE
            /\ setlog' = Append(setlog, "signal")
            /\ mainpc' = Cancelled(mainpc)
       ELSE /\ mainpc' = "stopped"
            /\ UNCHANGED <<shutdown_event, setlog>>
  /\ UNCHANGED <<native_mode, port, handlers, nm, stdin, stdin_eof, stdout, written, readlog>>
  /\ UNCHANGED vars

HostNext ==
  \/ \E v \in InboundValues : ChromeWrite(v)
  \/ \E x \in RawWrites : ChromeWriteRaw(x)
  \/ ChromeClose
  \/ NmCheck
  \/ NmRead
  \/ MainStart
  \/ Bind
  \/ BindFail
  \/ Poll
  \/ Closed
  \/ Interrupt

allvars == <<vars, hostvars>>

HostSpec == HostInit /\ [][HostNext]_allvars

\* The two processes of the host: the liveness thread and main() with its
\* event loop.
NmThread == NmCheck \/ NmRead

MainThread == MainStart \/ Bind \/ BindFail \/ Poll \/ Closed

\* Each of the two gets to run; Chrome and signals owe nothing.
HostLive ==
  /\ HostSpec
  /\ WF_allvars(NmThread)
  /\ WF_allvars(MainThread)

\* ------------------------------------------------------------------ claims
Count(s, Test(_)) == Len(SelectSeq(s, Test))

\* The handler of c is serving: accepted, and not in or past cleanup.
Serving(c) == task[c].pc \notin {"none", "cl_emails", "cl_items", "cl_send", "done"}

\* No handler step is enabled: every task waits for a message or has ended.
Quiescent ==
  \A c \in Conns : task[c].pc \in {"none", "done"} \/ (task[c].pc = "idle" /\ conn[c] = "open")

\* tool_result messages with id t that connection a was sent
Results(a, t) ==
  Count(sent[a], LAMBDA m : m.type = "tool_result" /\ m.tool_use_id = t)

\* Agent a made exactly one tool_call with id t, and no other Agent used t.
FreshCall(a, t) ==
  /\ calls[a][t].n = 1
  /\ \A b \in Conns \ {a} : calls[b][t].n = 0

\* C1: at most one open Browser connection per email: every open connection
\* that was registered under email e is the one the browser table holds for
\* e, so a previous holder of e has been closed.
C1_OneBrowserPerEmail ==
  \A c \in Conns : \A e \in announced[c] :
    (conn[c] = "open" /\ Serving(c)) => BrowserGet(browsers, e).ws = c

\* C2: a tool_call with a fresh id from an Agent that stays connected is
\* answered once the Browser connection it was forwarded to is gone: when
\* that connection's handler has ended and no task has a step left to take,
\* the Agent has been sent a tool_result with the id.
C2_CallAnswered ==
  \A a \in Conns : \A t \in Tids :
    ( /\ FreshCall(a, t)
      /\ calls[a][t].to # NoConn
      /\ task[calls[a][t].to].pc = "done"
      /\ conn[a] = "open"
      /\ Quiescent )
    => Results(a, t) >= 1

\* C3: for one tool_call with a fresh id the requesting Agent is sent at most
\* one tool_result with that id.
C3_AtMostOneResult ==
  \A a \in Conns : \A t \in Tids :
    (FreshCall(a, t) /\ Serving(a)) => Results(a, t) <= 1

\* C4: when an extension_connected for an email that another connection is
\* registered under has been processed (the table entry now names the new
\* connection), the previous connection for that email has been closed.
C4_ReannounceClosesPrevious ==
  [][ \A e \in Emails :
        LET old == BrowserGet(browsers, e).ws
            new == BrowserGet(browsers', e).ws
        IN (old # NoConn /\ new # NoConn /\ new # old) => conn'[old] # "open" ]_vars

\* The entry of B with email h, NoBrowser when there is none.
ExactMatch(B, h) ==
  LET matches == { i \in 1..Len(B) : B[i].email = h } IN
  IF matches = {} THEN NoBrowser ELSE B[CHOOSE i \in matches : TRUE]

\* C5 as claimed: exactly one Browser connected: it is chosen whatever the
\* hint; otherwise a hint chooses the exact match; otherwise none.
C5_ResolutionAsClaimed ==
  \A h \in Hints :
    resolve_browser(browsers, h) =
      IF Len(browsers) = 1 THEN browsers[1]
      ELSE IF h # NoHint THEN ExactMatch(browsers, h)
      ELSE NoBrowser

\* C5 amended: a hint chooses the Browser whose email equals it exactly and
\* fails when there is none, also when exactly one Browser is connected;
\* without a hint the only Browser is chosen when exactly one is connected,
\* and resolution fails with none or with two or more.
C5_Resolution ==
  \A h \in Hints :
    resolve_browser(browsers, h) =
      IF h # NoHint THEN ExactMatch(browsers, h)
      ELSE IF Len(browsers) = 1 THEN browsers[1]
      ELSE NoBrowser

\* A tool_call naming b@x failed to resolve while one Browser was connected.
C5_Witness ==
  \E a \in Conns : \E t \in Tids :
    /\ calls[a][t].n >= 1
    /\ calls[a][t].to = NoConn
    /\ Len(browsers) = 1
    /\ resolve_browser(browsers, "b@x") = NoBrowser
    /\ \E i \in 1..Len(sent[a]) :
         sent[a][i] = ErrorResult(t, "Multiple browsers connected")

\* s2 is s1 with one message appended, an error tool_result with id t.
AppendsError(s1, s2, t) ==
  /\ Len(s2) = Len(s1) + 1
  /\ SubSeq(s2, 1, Len(s1)) = s1
  /\ s2[Len(s2)].type = "tool_result"
  /\ s2[Len(s2)].tool_use_id = t
  /\ s2[Len(s2)].is_error = TRUE

\* C6: a tool_call whose target resolution fails sends its Agent exactly one
\* tool_result, with is_error and the call's id, creates no pending entry and
\* sends nothing to any other connection.
C6_ResolutionFailure ==
  [][ \A a \in Conns : \A t \in Tids :
        (calls'[a][t].n = calls[a][t].n + 1 /\ calls'[a][t].to = NoConn)
        => /\ AppendsError(sent[a], sent'[a], t)
           /\ pending_requests' = pending_requests
           /\ \A x \in Conns \ {a} : sent'[x] = sent[x] ]_vars

C6_Witness ==
  \E a \in Conns : \E t \in Tids :
    /\ calls[a][t].n = 1
    /\ calls[a][t].to = NoConn
    /\ Results(a, t) = 1
    /\ pending_requests = <<>>

\* tool_call messages that connection x was sent
Forwards(s) == Count(s, LAMBDA m : m.type = "tool_call")

\* C7: when the forward of a tool_call raises, the pending entry for its id
\* is gone, the Agent (if still connected) is sent an error tool_result with
\* the id, and nothing is forwarded again: no tool_call is handed to a
\* Browser more than once.
C7_ForwardFailure ==
  [][ \A a \in Conns : \A t \in Tids :
        /\ calls'[a][t].fails = calls[a][t].fails + 1
           => /\ PendingIndex(pending_requests', t) = 0
              /\ conn[a] = "open" => AppendsError(sent[a], sent'[a], t)
              /\ \A x \in Conns : Forwards(sent'[x]) <= Forwards(sent[x])
        /\ calls'[a][t].fwd <= calls'[a][t].n ]_vars

C7_Witness ==
  \E a \in Conns : \E t \in Tids :
    /\ calls[a][t].fails = 1
    /\ calls[a][t].fwd = 1
    /\ conn[a] = "open"
    /\ Results(a, t) >= 1
    /\ PendingIndex(pending_requests, t) = 0

\* Task x takes this step.
StepOf(x) == task'[x].pc # task[x].pc \/ task'[x].stale # task[x].stale

\* C8: a pending entry goes only when a message arrives (the matching
\* tool_result), in a step of its own Agent (the forward fails, the Agent
\* disconnects) or in the cleanup of the Browser connection its call was
\* forwarded to; the cleanup of any other connection leaves the entry in
\* place and sends its Agent nothing.
C8_PendingRemoval ==
  [][ \A i \in 1..Len(pending_requests) :
        LET e == pending_requests[i]
            b == calls[e.agent][e.tid].to
        IN
        /\ (\A j \in 1..Len(pending_requests') : pending_requests'[j].tid # e.tid)
           => \/ nrecv' = nrecv + 1
              \/ StepOf(e.agent)
              \/ StepOf(b)
        /\ \A x \in Conns \ {e.agent, b} :
             (StepOf(x) /\ task'[x].pc \in {"cl_send", "done"})
             => sent'[e.agent] = sent[e.agent] ]_vars

\* tab_groups_list replies that connection a was sent
TabReplies(a) == Count(sent[a], LAMBDA m : m.type = "tab_groups_list")

\* C9: every list_tab_groups request of an Agent that stays connected gets
\* exactly one tab_groups_list reply: a request ends without its reply only
\* when the Agent's connection went away, and an Agent with no request in
\* progress was sent as many replies as it made requests.
C9_OneTabReply ==
  \A a \in Conns :
    /\ tabreqs[a].phase = "aborted" => why[a] \in {"peer", "replaced"}
    /\ (Serving(a) /\ tabreqs[a].phase \notin {"fan", "wait"})
       => TabReplies(a) = tabreqs[a].n

\* C10: the reply to a list_tab_groups request holds the groups of every
\* Browser that was sent the request and answered before its slot timed out.
C10_PerSourceAggregation ==
  \A a \in Conns :
    tabreqs[a].phase = "replied"
    => \A e \in tabreqs[a].answered :
         \E i \in 1..Len(tabreqs[a].reply) : tabreqs[a].reply[i].browser = e

\* C11: a list_tab_groups received while no Browser is registered sends the
\* Agent tab_groups_list with no groups in the same step: no slot and no
\* Future is made, and the task is back at its message loop without having
\* suspended in a wait.
C11_EmptyFanOut ==
  [][ \A a \in Conns :
        (tabreqs'[a].n = tabreqs[a].n + 1 /\ browsers = <<>>)
        => /\ sent'[a] = Append(sent[a], [type |-> "tab_groups_list", groups |-> <<>>])
           /\ pending_tab_groups' = pending_tab_groups
           /\ fut'[a] = [e \in Emails |-> NoFut]
           /\ task'[a] = IdleTask
           /\ tabreqs'[a].phase = "replied" ]_vars

\* An Agent was answered while no Browser had ever been registered.
C11_Witness ==
  \E a \in Conns :
    /\ tabreqs[a].n = 1
    /\ tabreqs[a].phase = "replied"
    /\ tabreqs[a].asked = {}
    /\ browsers = <<>>
    /\ \A c \in Conns : announced[c] = {}
    /\ sent[a] = <<[type |-> "tab_groups_list", groups |-> <<>>]>>

\* Some Agent's list_tab_groups request is in progress.
TabRequestInProgress == \E a \in Conns : tabreqs[a].phase \in {"fan", "wait"}

\* C12: no aggregation slot leaks: after every step, when no list_tab_groups
\* request is in progress the slot table is empty; and a slot is removed only
\* in a step of the task that made it.
C12_NoSlotLeak ==
  [][ /\ ~TabRequestInProgress' => \A e \in Emails : pending_tab_groups'[e] = NoConn
      /\ \A e \in Emails :
           (pending_tab_groups[e] # NoConn /\ pending_tab_groups'[e] = NoConn)
           => task'[pending_tab_groups[e]] # task[pending_tab_groups[e]] ]_vars

\* C12, its first half alone: the slot table is empty whenever no request is
\* in progress.
C12_TableEmptyWhenIdle ==
  ~TabRequestInProgress => \A e \in Emails : pending_tab_groups[e] = NoConn

\* C12, its second half alone: a slot is removed by the task that made it.
C12_RemovedByMaker ==
  [][ \A e \in Emails :
        (pending_tab_groups[e] # NoConn /\ pending_tab_groups'[e] = NoConn)
        => task'[pending_tab_groups[e]] # task[pending_tab_groups[e]] ]_vars

\* C13: a connection classified as an Agent stays one: no connection is in
\* the agent set and in the browser table at once.
C13_ClassificationFixed ==
  \A c \in agents : \A i \in 1..Len(browsers) : browsers[i].ws # c

\* Connection c is dispatched to handle_browser_message.
BrowserSide(c) == conn[c] = "open" /\ task[c].pc = "idle" /\ c \notin agents \cup unclassified

\* C14: a tool_result from a Browser connection whose id is pending removes
\* the entry and sends the recorded Agent, when its connection is open, the
\* message as it came, all in the step that receives it; one whose id is not
\* pending sends nothing and changes no table.
C14_ToolResultRouting ==
  \A c \in Conns : \A m \in ToolResultMsgs :
    BrowserSide(c) =>
      LET w == route_message(World, c, m)
          i == PendingIndex(pending_requests, m.tool_use_id)
      IN
      /\ w.task[c] = IdleTask
      /\ w.browsers = browsers /\ w.pending_tab_groups = pending_tab_groups
      /\ w.pending_list_tools = pending_list_tools
      /\ IF i # 0
           THEN /\ w.pending_requests = RemoveAt(pending_requests, i)
                /\ w.sent = IF conn[pending_requests[i].agent] = "open"
                              THEN [sent EXCEPT ![pending_requests[i].agent] = Append(@, m)]
                              ELSE sent
           ELSE /\ w.pending_requests = pending_requests
                /\ w.sent = sent

\* A forwarded call was answered by its Browser: the Agent holds the
\* Browser's tool_result, the entry is gone, and the Browser is still there
\* to send the same tool_result again.
C14_Witness ==
  \E a \in Conns : \E t \in Tids :
    /\ calls[a][t].fwd = 1
    /\ conn[a] = "open"
    /\ \E i \in 1..Len(sent[a]) :
         sent[a][i] = [type |-> "tool_result", tool_use_id |-> t, content |-> "out",
                       is_error |-> FALSE]
    /\ PendingIndex(pending_requests, t) = 0
    /\ BrowserSide(calls[a][t].to)

\* Connection c is dispatched to handle_agent_message.
AgentSide(c) == conn[c] = "open" /\ task[c].pc = "idle" /\ c \in agents \cup unclassified

\* C15: list_tools, when the target resolves, sends the Agent one tool_list
\* with the resolved Browser's tools, schemas and email, carrying the note
\* exactly when more than one Browser is registered and the request named no
\* target; when it does not resolve, the Agent is sent the error message.
C15_ListToolsReply ==
  \A c \in Conns : \A m \in ListToolsMsgs :
    AgentSide(c) =>
      LET w == route_message(World, c, m)
          bc == resolve_browser(browsers, m.browser)
          reply == w.sent[c][Len(w.sent[c])]
      IN
      /\ Len(w.sent[c]) = Len(sent[c]) + 1
      /\ IF bc.ws # NoConn
           THEN /\ reply.type = "tool_list"
                /\ reply.tools = bc.tools
                /\ reply.tool_schemas = bc.tool_schemas
                /\ reply.browser = bc.email
                /\ ("note" \in DOMAIN reply) <=> (Len(browsers) > 1 /\ m.browser = NoHint)
           ELSE reply = no_browser_error(browsers)

\* When the connection now registered under email e first announced e.
AnnouncedAt(e) == annat[BrowserGet(browsers, e).ws][e]

\* C16: the list_browsers reply lists the registered Browsers, each email
\* once, with the number of tools of its entry, in the order in which their
\* current connections announced themselves.
C16_ListBrowsersOrder ==
  \A c \in Conns :
    AgentSide(c) =>
      LET w == route_message(World, c, Plain("list_browsers"))
          reply == w.sent[c][Len(w.sent[c])]
          L == reply.browsers
      IN
      /\ reply.type = "browsers_list"
      /\ Len(L) = Len(browsers)
      /\ \A i, j \in 1..Len(L) : i # j => L[i].email # L[j].email
      /\ \A i \in 1..Len(L) :
           /\ BrowserIndex(browsers, L[i].email) # 0
           /\ L[i].tools_count = Len(BrowserGet(browsers, L[i].email).tools)
      /\ \A i, j \in 1..Len(L) : i < j => AnnouncedAt(L[i].email) < AnnouncedAt(L[j].email)

\* ------------------------------------------------------------------ C17
LastRead == readlog[Len(readlog)]

ReadDone == Len(readlog') = Len(readlog) + 1

\* C17: a read that raises (truncated or undecodable payload, any other read
\* error) or reports end-of-stream ends the liveness loop in the same step
\* with the shutdown flag set; whenever the loop ends the flag is set; after
\* the loop has ended nothing is read again; and in native mode, once the
\* loop has ended, the server eventually stops.
C17_ChannelLossIsFatal ==
  /\ [][ /\ (ReadDone /\ (LastRead'.raised \/ LastRead'.got = PyNone))
              => (nm' = "ended" /\ shutdown_event')
         /\ (nm # "ended" /\ nm' = "ended") => shutdown_event'
         /\ nm = "ended" => (nm' = "ended" /\ readlog' = readlog)
       ]_allvars
  /\ (native_mode /\ nm = "ended") ~> (mainpc = "stopped")

\* The loop ended on a payload cut short, with no signal, and the server
\* has stopped.
C17_Witness ==
  /\ native_mode
  /\ nm = "ended"
  /\ mainpc = "stopped"
  /\ nsignals = 0
  /\ setlog = <<"loop">>
  /\ readlog # <<>>
  /\ LastRead.raised
  /\ ~LastRead.whole

\* ------------------------------------------------------------------ C18
\* The lifecycle state main() is in: Starting up to the bind, Listening
\* while run() serves, Draining while the listener closes, Stopped after.
Phase(pc) ==
  CASE pc \in {"main", "serve"} -> 1
    [] pc = "running" -> 2
    [] pc = "closing" -> 3
    [] pc = "stopped" -> 4

Accepting == mainpc = "running"

\* C18: the process moves only forward through Starting, Listening,
\* Draining, Stopped; a signal that arrives once main() has set up its
\* signal handling sets the shutdown flag and so does the end of the
\* liveness loop; the flag is never cleared, and setting it when it is set
\* leaves it set; after Stopped the listener never accepts again.
C18_LifecycleOrder ==
  [][ /\ Phase(mainpc') >= Phase(mainpc)
      /\ (nsignals' > nsignals /\ mainpc # "main") => shutdown_event'
      /\ (nm # "ended" /\ nm' = "ended") => shutdown_event'
      /\ shutdown_event => shutdown_event'
      /\ (shutdown_event /\ Len(setlog') > Len(setlog)) => shutdown_event'
      /\ Phase(mainpc) = 4 => (Phase(mainpc') = 4 /\ ~Accepting')
    ]_allvars

\* ------------------------------------------------------------------ C19
\* The message of the frame the loop has just read, when Chrome wrote it as
\* a well-formed frame of an object.
ReadObject(v) ==
  /\ ReadDone
  /\ LastRead'.wf
  /\ LastRead'.value = v

\* C19: a ping frame is answered by exactly one pong frame with the status,
\* a get_status frame by exactly one status frame whose ws_port is the port
\* the listener was started on, and an object of any other type by no frame,
\* the loop going on and the shutdown flag left as it was.
C19_ControlReplies ==
  [][ /\ ReadObject(TypeOnly("ping")) => stdout' = native_write(stdout, Pong)
      /\ ReadObject(TypeOnly("get_status")) => stdout' = native_write(stdout, Status(port))
      /\ (ReadObject(TypeOnly("noop")) \/ ReadObject(PyDict(<<>>)))
           => (stdout' = stdout /\ nm' = "check" /\ shutdown_event' = shutdown_event)
    ]_allvars

\* ------------------------------------------------------------------ C20
\* What native_read hands the loop for end-of-stream.
EndOfStream == PyNone

\* C20: every message Chrome framed as native_write frames it (4-byte
\* little-endian length, then the JSON text) was read back by native_read
\* without an error as a value equal to the message, and not as the
\* end-of-stream signal; and end-of-stream was reported only by reads that
\* found fewer than 4 bytes for the prefix.
C20_FrameRoundTrip ==
  \A i \in 1..Len(readlog) :
    LET e == readlog[i] IN
    /\ e.wf => (~e.raised /\ e.got = e.value /\ e.got # EndOfStream)
    /\ (~e.raised /\ e.got = EndOfStream) => e.prefix < 4

\* ------------------------------------------------------------------ C21
\* C21: once the cleanup of connection c is over and its handler has ended,
\* no shared table refers to c: c is neither in the unclassified set nor in
\* the agent set, no entry of the browser table holds c and no pending
\* request maps to c.
C21_NoReferenceAfterCleanup ==
  \A c \in Conns :
    task[c].pc = "done" =>
      /\ c \notin unclassified
      /\ c \notin agents
      /\ \A i \in 1..Len(browsers) : browsers[i].ws # c
      /\ \A i \in 1..Len(pending_requests) : pending_requests[i].agent # c

\* ------------------------------------------------------------------ C22
\* Payloads that are no well-formed message: not JSON, not UTF-8, or JSON
\* that is not an object.
Malformed ==
  { raw \in RawPayloads :
      \/ \E i \in 1..Len(raw) : raw[i] >= 128
      \/ JsonLoads(raw).raised
      \/ JsonLoads(raw).value.py # "dict" }

\* The shared tables and the classification of every connection in world w.
Tables(w) ==
  << w.unclassified, w.agents, w.browsers, w.pending_requests, w.pending_list_tools,
     w.pending_tab_groups >>

\* C22: a malformed payload on an open connection is dropped and the
\* connection is kept: nothing is sent to anyone, the connection stays open
\* with its handler waiting for the next message, and its classification and
\* every shared table are as before (an unclassified connection stays
\* unclassified), so that the next message is routed as if the malformed one
\* had not come.
C22_MalformedDropped ==
  \A c \in Conns : \A raw \in Malformed :
    (conn[c] = "open" /\ task[c].pc = "idle") =>
      LET w == handler_body(World, c, raw) IN
      /\ w.sent = sent
      /\ w.conn[c] = "open"
      /\ w.task[c] = IdleTask
      /\ Tables(w) = Tables(World)

\* ------------------------------------------------------------------ C23
\* The task of c stays suspended inside the fan-out loop over this step.
StaysInFanOut(c) ==
  /\ task[c].pc = "fan"
  /\ task'[c].pc = "fan"
  /\ tabreqs'[c].asked = tabreqs[c].asked

\* C23: no task is suspended between a read of a shared table and the write
\* or iteration that depends on it: the entry that a re-announcing
\* connection overwrites when it is installed is the entry it read and
\* closed, and the browser table does not change while a list_tab_groups
\* fan-out over it is between two iteration steps.
C23_NoYieldBetweenReadAndWrite ==
  [][ \A c \in Conns :
        /\ (task[c].pc = "closing" /\ task'[c].pc # "closing")
             => LET cur == BrowserGet(browsers, task[c].email) IN
                cur.ws # NoConn => cur.ws = task[c].to
        /\ StaysInFanOut(c) => browsers' = browsers
    ]_vars

\* ------------------------------------------------------------------ C24
\* Where connection c was sent message m: the first place, 0 when nowhere.
Place(c, m) ==
  IF \E i \in 1..Len(sent[c]) : sent[c][i] = m
    THEN CHOOSE i \in 1..Len(sent[c]) :
           sent[c][i] = m /\ \A j \in 1..(i - 1) : sent[c][j] # m
    ELSE 0

\* Connection c is the only one a message of type ty with id t arrived on,
\* and one such message did.
OnlySender(c, ty, t) ==
  /\ arrival[c][ty][t].n = 1
  /\ \A d \in Conns \ {c} : arrival[d][ty][t].n = 0

ForwardOf(t) == [type |-> "tool_call", tool_use_id |-> t]

ResultOf(t) == [type |-> "tool_result", tool_use_id |-> t, content |-> "out", is_error |-> FALSE]

\* Connection c was sent both x and y.
BothSent(c, x, y) == Place(c, x) # 0 /\ Place(c, y) # 0

\* C24: a handler takes the next message of its connection only when the
\* routing of the previous one is over; two tool_calls that one Agent sent
\* and that were forwarded to the same Browser are in what that Browser was
\* sent in the order of their arrival; and two tool_results that one Browser
\* sent and that reached the same Agent are in what that Agent was sent in
\* the order of their arrival.
C24_FifoPerConnection ==
  /\ [][ \A c \in Conns : arrival'[c] # arrival[c] => task[c].pc = "idle" ]_vars
  /\ [] \A a \in Conns, b \in Conns : \A t1 \in Tids, t2 \in Tids :
          /\ ( /\ OnlySender(a, "tool_call", t1) /\ OnlySender(a, "tool_call", t2)
               /\ BothSent(b, ForwardOf(t1), ForwardOf(t2))
               /\ arrival[a]["tool_call"][t1].at < arrival[a]["tool_call"][t2].at )
               => Place(b, ForwardOf(t1)) < Place(b, ForwardOf(t2))
          /\ ( /\ OnlySender(b, "tool_result", t1) /\ OnlySender(b, "tool_result", t2)
               /\ BothSent(a, ResultOf(t1), ResultOf(t2))
               /\ arrival[b]["tool_result"][t1].at < arrival[b]["tool_result"][t2].at )
               => Place(a, ResultOf(t1)) < Place(a, ResultOf(t2))

\* An Agent's two calls were forwarded to one Browser, and that Browser's two
\* results, sent in the other order, have reached the Agent.
C24_Witness ==
  \E a \in Conns, b \in Conns :
    /\ a # b
    /\ OnlySender(a, "tool_call", "t1") /\ OnlySender(a, "tool_call", "t2")
    /\ arrival[a]["tool_call"]["t1"].at < arrival[a]["tool_call"]["t2"].at
    /\ BothSent(b, ForwardOf("t1"), ForwardOf("t2"))
    /\ OnlySender(b, "tool_result", "t1") /\ OnlySender(b, "tool_result", "t2")
    /\ arrival[b]["tool_result"]["t2"].at < arrival[b]["tool_result"]["t1"].at
    /\ BothSent(a, ResultOf("t1"), ResultOf("t2"))
    /\ Place(a, ResultOf("t2")) < Place(a, ResultOf("t1"))

\* ------------------------------------------------------------------ C25
\* Message m is of a type that connection c's side of the protocol does not
\* handle: c is dispatched as an Agent (or is unclassified) and m is none of
\* the four requests, or c is dispatched as a Browser and m is none of the
\* three replies (pong included among the unhandled).
UnknownFor(c, m) ==
  /\ m.type # "extension_connected"
  /\ IF c \in agents \cup unclassified
       THEN m.type \notin {"list_browsers", "list_tools", "tool_call", "list_tab_groups"}
       ELSE m.type \notin {"tool_result", "tool_list", "tab_groups_list"}

\* C25: routing a message of unknown type, or a Browser's pong, sends
\* nothing to any connection and leaves the browser table and the pending
\* tables as they are; its one effect is that an unclassified sender becomes
\* an Agent.
C25_UnknownDropped ==
  \A c \in Conns : \A m \in Msgs :
    (conn[c] = "open" /\ task[c].pc = "idle" /\ UnknownFor(c, m)) =>
      LET w == route_message(World, c, m) IN
      /\ w.sent = sent
      /\ w.conn = conn
      /\ w.browsers = browsers
      /\ w.pending_requests = pending_requests
      /\ w.pending_list_tools = pending_list_tools
      /\ w.pending_tab_groups = pending_tab_groups
      /\ w.fut = fut
      /\ w.task[c] = IdleTask
      /\ w.unclassified = unclassified \ {c}
      /\ w.agents = IF c \in unclassified THEN agents \cup {c} ELSE agents

\* A registered Browser sent a tool_call, which its side does not handle: no
\* call was recorded for it and it was sent nothing.
C25_Witness ==
  \E c \in Conns :
    /\ BrowserSide(c)
    /\ \E i \in 1..Len(browsers) : browsers[i].ws = c
    /\ arrival[c]["tool_call"]["t1"].n = 1
    /\ calls[c]["t1"].n = 0
    /\ pending_requests = <<>>
    /\ sent[c] = <<>>

\* ------------------------------------------------------------------ C26
\* C26: correlation is per Agent: a tool_call of Agent a, whatever its id,
\* leaves the pending entries of the other Agents' calls in flight in the
\* table, so that each of them still gets the result of its own call.
C26_PerAgentCorrelation ==
  \A a \in Conns : \A m \in ToolCallMsgs :
    AgentSide(a) =>
      LET w == route_message(World, a, m) IN
      \A i \in 1..Len(pending_requests) :
        pending_requests[i].agent # a =>
          \E j \in 1..Len(w.pending_requests) : w.pending_requests[j] = pending_requests[i]

\* ------------------------------------------------------------------ C27
\* C27 as claimed: a tool_result whose id is pending, sent by a connection
\* other than the one the call was forwarded to, is not delivered and does
\* not consume the pending entry.
C27_ProvenanceAsClaimed ==
  \A c \in Conns : \A m \in ToolResultMsgs :
    (conn[c] = "open" /\ task[c].pc = "idle") =>
      LET w == route_message(World, c, m)
          i == PendingIndex(pending_requests, m.tool_use_id)
      IN
      (i # 0 /\ calls[pending_requests[i].agent][m.tool_use_id].to # c) =>
        /\ w.pending_requests = pending_requests
        /\ w.sent = sent

\* C27: a tool_result is relayed by its id alone.  One that an Agent (or an
\* unclassified connection, which becomes an Agent by it) sends is not
\* delivered and consumes nothing; one that any connection dispatched as a
\* Browser sends, also a connection other than the one the call was
\* forwarded to, consumes the pending entry of its id and is sent to the
\* recorded Agent when that Agent's connection is open.
C27_ResultRoutingById ==
  \A c \in Conns : \A m \in ToolResultMsgs :
    (conn[c] = "open" /\ task[c].pc = "idle") =>
      LET w == route_message(World, c, m)
          i == PendingIndex(pending_requests, m.tool_use_id)
      IN
      i # 0 =>
        IF c \in agents \cup unclassified
          THEN /\ w.pending_requests = pending_requests
               /\ w.sent = sent
          ELSE /\ w.pending_requests = RemoveAt(pending_requests, i)
               /\ w.sent = IF conn[pending_requests[i].agent] = "open"
                             THEN [sent EXCEPT ![pending_requests[i].agent] = Append(@, m)]
                             ELSE sent

\* An Agent holds the result of its call, and the result came from a Browser
\* connection other than the one the call was forwarded to, which has sent
\* no result.
C27_Witness ==
  \E a \in Conns, b \in Conns, c \in Conns :
    /\ b # c
    /\ OnlySender(a, "tool_call", "t1")
    /\ calls[a]["t1"].fwd = 1
    /\ calls[a]["t1"].to = b
    /\ OnlySender(c, "tool_result", "t1")
    /\ Place(a, ResultOf("t1")) # 0
    /\ PendingIndex(pending_requests, "t1") = 0
    /\ conn[b] = "open"

\* ------------------------------------------------------------------ C28
\* C28: each connection is registered under at most one email: the browser
\* table never holds two entries whose connection is the same one.
C28_OneEmailPerConnection ==
  \A c \in Conns :
    Cardinality({i \in 1..Len(browsers) : browsers[i].ws = c}) <= 1

\* ------------------------------------------------------------------ C29
ToolListMsg == [type |-> "tool_list"]

\* C29: the list-tools pending table is empty in every reachable state: a
\* list_tools records no Agent and sends nothing to any connection but the
\* Agent that asked, and a tool_list that a Browser sends causes no message
\* to be sent to anyone.
C29_NoListToolsFlow ==
  /\ pending_list_tools = <<>>
  /\ \A c \in Conns : \A m \in ListToolsMsgs :
       AgentSide(c) =>
         LET w == route_message(World, c, m) IN
         /\ w.pending_list_tools = <<>>
         /\ \A d \in Conns \ {c} : w.sent[d] = sent[d]
  /\ \A c \in Conns :
       (BrowserSide(c) /\ conn[c] = "open" /\ task[c].pc = "idle") =>
         route_message(World, c, ToolListMsg).sent = sent

\* An Agent was answered a list_tools, and a registered connection that is
\* dispatched as a Browser has sent a tool_list of its own; nothing was sent
\* to anyone but the Agent.
C29_Witness ==
  \E a \in Conns, b \in Conns :
    /\ a \in agents
    /\ b \notin agents \cup unclassified
    /\ \E i \in 1..Len(browsers) : browsers[i].ws = b
    /\ toollists[b] = 1
    /\ \E k \in 1..Len(sent[a]) : sent[a][k].type = "tool_list"
    /\ \A d \in Conns \ {a} : sent[d] = <<>>

====
